---- MODULE Spec2Model ----
(***************************************************************************)
(* Model of the LXC task spawner (avocado/plugins/spawners/lxc.py) run on  *)
(* a single-threaded asyncio event loop.  RuntimeTasks are spawned into    *)
(* the container named by container_id, probed with is_task_alive and      *)
(* awaited with wait_task.  The container and the processes attached to   *)
(* it live outside the interpreter and change on their own.                *)
(***************************************************************************)
EXTENDS Naturals, FiniteSets, Sequences, TLC

\* Number of RuntimeTasks the orchestrator hands to the spawner.
NumTasks == 2

Tasks == 1..NumTasks

\* Python's None.
None == "None"

\* lxc.py:128  container_id = "c34"
container_id == "c34"

ContainerIds == {container_id}

\* lxc.py:96 / lxc.py:123  the message recorded in runtime_task.status
msg == "LXC python bindings not available on the system"

(***************************************************************************)
(* Settings: the options of the spawner                                    *)
(***************************************************************************)

\* lxc.py:48  section = 'spawner.lxc'
section == "spawner.lxc"

\* lxc.py:50-68  the options LXCSpawnerInit.initialize registers.
initialize ==
    {[section |-> section, key |-> "dist",    default |-> "fedora"],
     [section |-> section, key |-> "release", default |-> "32"],
     [section |-> section, key |-> "arch",    default |-> "i386"]}

\* settings.as_dict() with no user override: the flattened map from
\* section.key, written <<section, key>>, to the option's default.
as_dict(options) ==
    [ns \in {<<o.section, o.key>> : o \in options} |->
        (CHOOSE o \in options : <<o.section, o.key>> = ns).default]

\* dict.get: the value under the key, None if the key is absent.
get(config, ns) == IF ns \in DOMAIN config THEN config[ns] ELSE None

\* lxc.py:117-120, 132-134: the options spawn_task hands to the download
\* template, looked up as 'spawner.lxc.distro', 'spawner.lxc.release' and
\* 'spawner.lxc.arch'.
create_options ==
    LET config == as_dict(initialize) IN
    [dist    |-> get(config, <<"spawner.lxc", "distro">>),
     release |-> get(config, <<"spawner.lxc", "release">>),
     arch    |-> get(config, <<"spawner.lxc", "arch">>)]

\* The rootfs field of a container that is not defined.
no_rootfs == [dist |-> "-", release |-> "-", arch |-> "-"]

VARIABLES
    LXC_AVAILABLE,    \* lxc.py:7-11   module flag: the lxc bindings imported
    spawner_handle,   \* runtime_task.spawner_handle, per RuntimeTask
    status,           \* runtime_task.status, per RuntimeTask
    container,        \* backend: per container id [defined, running, runner, creator, rootfs]
    proc,             \* backend: the entry point process attached for each task
    capture,          \* LXCStreamsFile temp files held by each task's async command
    spc,              \* position of each task's spawn_task coroutine
    wpc,              \* position of each task's wait_task coroutine
    last,             \* history: the latest Spawner call, its result and backend calls
    hist              \* history: the latest answer of is_task_alive since a successful spawn

\* BaseSpawner.stream_output (avocado/core/spawners/common.py) and the
\* files it reads.
VARIABLES
    pointer,          \* the task's pointer file test-results/<task>/data
    dirs,             \* the directories that exist, each with its entries
    gen               \* the generator object returned by stream_output

collector == <<pointer, dirs, gen>>

vars == <<LXC_AVAILABLE, spawner_handle, status, container, proc, capture,
          spc, wpc, last, hist, pointer, dirs, gen>>

backend == <<container, proc, capture>>

\* The entry point process attached for a task: not attached yet, running,
\* or exited (a child that is only stopped by a signal, which os.waitpid
\* with WUNTRACED reports as well, is left out).
ProcStates == {"none", "running", "exited"}

\* Outcomes of running a command in the container with its streams captured:
\* it runs, or acquiring a capture file, attaching or reading the capture fails.
CmdOutcomes == {"ok", "mkstemp_out", "mkstemp_err", "attach", "read"}

TypeOK ==
    /\ LXC_AVAILABLE \in BOOLEAN
    /\ spawner_handle \in [Tasks -> ContainerIds \cup {None}]
    /\ status \in [Tasks -> {None, msg}]
    /\ container \in [ContainerIds -> [defined : BOOLEAN, running : BOOLEAN,
                                        runner : BOOLEAN, creator : Tasks \cup {0},
                                        rootfs : {no_rootfs, create_options}]]
    /\ proc \in [Tasks -> ProcStates]
    /\ capture \in [Tasks -> 0..2]
    /\ spc \in [Tasks -> {"idle", "get_ips", "waitpid", "ret_true", "ret_false", "raised"}]
    /\ wpc \in [Tasks -> {"polling", "returned", "raised"}]
    /\ hist \in [Tasks -> {"none", "T", "F"}]

(***************************************************************************)
(* Initial state: the module is imported with or without the lxc bindings, *)
(* the RuntimeTasks are new, the backend holds no container.               *)
(***************************************************************************)
Init ==
    /\ LXC_AVAILABLE \in BOOLEAN
    /\ spawner_handle = [t \in Tasks |-> None]
    /\ status = [t \in Tasks |-> None]
    /\ container = [c \in ContainerIds |->
                        [defined |-> FALSE, running |-> FALSE, runner |-> FALSE, creator |-> 0,
                         rootfs |-> no_rootfs]]
    /\ proc = [t \in Tasks |-> "none"]
    /\ capture = [t \in Tasks |-> 0]
    /\ spc = [t \in Tasks |-> "idle"]
    /\ wpc = [t \in Tasks |-> "polling"]
    /\ last = [op |-> "none", ret |-> "none", calls |-> {}, fail |-> "none"]
    /\ hist = [t \in Tasks |-> "none"]
    /\ pointer = [exists |-> FALSE, line |-> <<>>]
    /\ dirs = [d \in {} |-> <<>>]
    /\ gen = [pc |-> "none", listing |-> <<>>, pos |-> 0, yielded |-> <<>>,
              exc |-> None, raced |-> FALSE]

(***************************************************************************)
(* LXCStreamsFile and the two command runners                              *)
(***************************************************************************)

\* Capture files made by the with statement's __enter__ calls before the
\* outcome is reached: none if the first mkstemp fails, one if the second does.
FilesCreated(outcome) ==
    CASE outcome = "mkstemp_out" -> 0
      [] outcome = "mkstemp_err" -> 1
      [] OTHER -> 2

\* Removal placed after the command instead of in __exit__: an error that
\* leaves the block skips it.
FilesRemoved_after_command(outcome) ==
    IF outcome = "ok" THEN FilesCreated(outcome) ELSE 0

\* Capture files removed by __exit__ when the with block is left: each
\* LXCStreamsFile that was entered removes its file.
FilesRemoved(outcome) == FilesCreated(outcome)

\* run_container_cmd: attach_wait with both streams captured; returns the exit
\* code, or lets the error out.  files is what it leaves on disk.
run_container_cmd(outcome, exitcode) ==
    [exc      |-> outcome # "ok",
     exitcode |-> exitcode,
     files    |-> FilesCreated(outcome) - FilesRemoved(outcome)]

\* The entry point processes alive in container c (every task is attached to
\* the container named container_id).
processes(c) ==
    IF c = container_id THEN {u \in Tasks : proc[u] = "running"} ELSE {}

\* Exit status of  pgrep avocado-runner  inside container c.
pgrep(c) == IF processes(c) # {} THEN 0 ELSE 1

(***************************************************************************)
(* is_task_alive                                                           *)
(***************************************************************************)

\* A variant without the test of c.running: the probe is attached to a
\* stopped container too.
probe_container_no_running_check(t, outcome) ==
    LET c == container[spawner_handle[t]] IN
    IF ~c.defined
    THEN [ret |-> "False", status |-> status[t], calls |-> {}, files |-> 0]
    ELSE LET r == run_container_cmd(outcome, pgrep(spawner_handle[t])) IN
         [ret    |-> IF r.exc THEN "CmdError"
                     ELSE IF r.exitcode = 0 THEN "True" ELSE "False",
          status |-> status[t],
          calls  |-> {"pgrep"},
          files  |-> r.files]

\* lxc.py:101-108: look the container up by the handle and probe it.
probe_container(t, outcome) ==
    LET c == container[spawner_handle[t]] IN
    IF ~c.defined
    THEN [ret |-> "False", status |-> status[t], calls |-> {}, files |-> 0]
    ELSE IF ~c.running
    THEN [ret |-> "False", status |-> status[t], calls |-> {}, files |-> 0]
    ELSE LET r == run_container_cmd(outcome, pgrep(spawner_handle[t])) IN
         [ret    |-> IF r.exc THEN "CmdError"
                     ELSE IF r.exitcode = 0 THEN "True" ELSE "False",
          status |-> status[t],
          calls  |-> {"pgrep"},
          files  |-> r.files]

\* A variant that tests LXC_AVAILABLE before the handle.
is_task_alive_dependency_first(t, outcome) ==
    IF ~LXC_AVAILABLE
    THEN [ret |-> "RuntimeError", status |-> msg, calls |-> {}, files |-> 0]
    ELSE IF spawner_handle[t] = None
    THEN [ret |-> "False", status |-> status[t], calls |-> {}, files |-> 0]
    ELSE probe_container(t, outcome)

\* A variant that answers "not alive" when the bindings are missing.
is_task_alive_quiet(t, outcome) ==
    IF spawner_handle[t] = None \/ ~LXC_AVAILABLE
    THEN [ret |-> "False", status |-> status[t], calls |-> {}, files |-> 0]
    ELSE probe_container(t, outcome)

\* is_task_alive(runtime_task): the value returned or the error raised, the
\* status it leaves on the RuntimeTask, the backend commands it ran and the
\* capture files its command left on disk.
is_task_alive(t, outcome) ==
    IF spawner_handle[t] = None
    THEN [ret |-> "False", status |-> status[t], calls |-> {}, files |-> 0]
    ELSE IF ~LXC_AVAILABLE
    THEN [ret |-> "RuntimeError", status |-> msg, calls |-> {}, files |-> 0]
    ELSE probe_container(t, outcome)

\* History: the latest answer (True or False) of is_task_alive on a task
\* that holds a handle; a call that raises gives no answer.
hist_next(h, ret) ==
    CASE ret = "True"  -> "T"
      [] ret = "False" -> "F"
      [] OTHER -> h

observe(t, ret) ==
    IF spawner_handle[t] = None THEN hist
    ELSE [hist EXCEPT ![t] = hist_next(hist[t], ret)]

\* The event loop's thread is inside a blocking call of some coroutine:
\* c.get_ips(timeout=30) is called directly, not through an executor.
LoopBlocked == \E t \in Tasks : spc[t] = "get_ips"

\* A direct call of is_task_alive by the orchestrator.
call_is_task_alive(t) ==
    /\ ~LoopBlocked
    /\ UNCHANGED collector
    /\ \E r \in {is_task_alive(t, outcome) : outcome \in CmdOutcomes} :
         /\ status' = [status EXCEPT ![t] = r.status]
         /\ hist' = observe(t, r.ret)
         /\ last' = [op |-> "is_task_alive", ret |-> r.ret,
                     calls |-> r.calls, fail |-> "none"]
         /\ capture' = [capture EXCEPT ![t] = @ + r.files]
    /\ UNCHANGED <<LXC_AVAILABLE, spawner_handle, container, proc, spc, wpc>>

(***************************************************************************)
(* spawn_task                                                              *)
(***************************************************************************)

\* The test of lxc.py:122 left out.
dependency_missing_never == FALSE

\* lxc.py:122  if not LXC_AVAILABLE
dependency_missing == ~LXC_AVAILABLE

\* The test of lxc.py:130 left out: the rootfs is created on every spawn.
needs_create_always(c) == TRUE

\* lxc.py:130  if not c.defined
needs_create(c) == ~c.defined

\* lxc.py:155  if not c.running
needs_start(c) == ~c.running

\* provision with the except clause of lxc.py:151-152 passing instead of
\* returning False: a failed deployment is ignored and the container started.
provision_ignores_copy_error(t, c, create_ok, copy_ok, start_ok) ==
    LET create == needs_create(c)
        c1     == IF create /\ create_ok
                  THEN [c EXCEPT !.defined = TRUE, !.creator = t,
                                 !.rootfs = create_options]
                  ELSE c
        k1     == IF create THEN {"create"} ELSE {}
    IN  IF create /\ ~create_ok
        THEN [c |-> c, calls |-> k1, fail |-> "create"]
        ELSE LET c2    == IF copy_ok THEN [c1 EXCEPT !.runner = TRUE] ELSE c1
                 start == needs_start(c2)
                 k2    == k1 \cup {"copy"} \cup (IF start THEN {"start"} ELSE {})
             IN  IF start /\ ~start_ok
                 THEN [c |-> c2, calls |-> k2, fail |-> "start"]
                 ELSE [c |-> IF start THEN [c2 EXCEPT !.running = TRUE] ELSE c2,
                       calls |-> k2, fail |-> "none"]

\* lxc.py:129-158: create the rootfs, deploy the runner, start the container.
\* creator is history: the task whose spawn_task created the rootfs; rootfs
\* holds the options the rootfs was created with.
\* Gives the container afterwards, the backend calls made in order of the
\* code, and the step that failed ("none" when all went well).
provision(t, c, create_ok, copy_ok, start_ok) ==
    LET create == needs_create(c)
        c1     == IF create /\ create_ok
                  THEN [c EXCEPT !.defined = TRUE, !.creator = t,
                                 !.rootfs = create_options]
                  ELSE c
        k1     == IF create THEN {"create"} ELSE {}
    IN  IF create /\ ~create_ok
        THEN [c |-> c, calls |-> k1, fail |-> "create"]
        ELSE IF ~copy_ok
        THEN [c |-> c1, calls |-> k1 \cup {"copy"}, fail |-> "copy"]
        ELSE LET c2    == [c1 EXCEPT !.runner = TRUE]
                 start == needs_start(c2)
                 k2    == k1 \cup {"copy"} \cup (IF start THEN {"start"} ELSE {})
             IN  IF start /\ ~start_ok
                 THEN [c |-> c2, calls |-> k2, fail |-> "start"]
                 ELSE [c |-> IF start THEN [c2 EXCEPT !.running = TRUE] ELSE c2,
                       calls |-> k2, fail |-> "none"]

\* spawn_task up to its first blocking call (lxc.py:111-162): the dependency
\* check and the provisioning run without giving up the event loop.
spawn_task(t) ==
    /\ spc[t] = "idle"
    /\ UNCHANGED collector
    /\ ~LoopBlocked
    /\ IF dependency_missing
       THEN /\ status' = [status EXCEPT ![t] = msg]
            /\ spc' = [spc EXCEPT ![t] = "ret_false"]
            /\ last' = [op |-> "spawn_task", ret |-> "False",
                        calls |-> {}, fail |-> "dependency"]
            /\ UNCHANGED container
       ELSE \E p \in {provision(t, container[container_id], create_ok, copy_ok, start_ok) :
                          create_ok \in BOOLEAN, copy_ok \in BOOLEAN, start_ok \in BOOLEAN} :
              /\ container' = [container EXCEPT ![container_id] = p.c]
              /\ spc' = [spc EXCEPT ![t] = IF p.fail = "none" THEN "get_ips"
                                           ELSE "ret_false"]
              /\ last' = [op |-> "spawn_task", ret |-> IF p.fail = "none" THEN "pending" ELSE "False",
                          calls |-> p.calls, fail |-> p.fail]
              /\ UNCHANGED status
    /\ UNCHANGED <<LXC_AVAILABLE, spawner_handle, proc, capture, wpc, hist>>

\* lxc.py:162-170: c.get_ips(timeout=30) comes back, with addresses or empty
\* handed; with addresses the entry point is attached with its streams
\* captured and the coroutine awaits os.waitpid in the executor.
spawn_task_get_ips(t) ==
    /\ spc[t] = "get_ips"
    /\ UNCHANGED collector
    /\ \E ips \in BOOLEAN, outcome \in CmdOutcomes \ {"read"} :
         /\ ips => container[container_id].running
         /\ IF ~ips
            THEN /\ spc' = [spc EXCEPT ![t] = "ret_false"]
                 /\ last' = [op |-> "spawn_task", ret |-> "False",
                             calls |-> {"get_ips"}, fail |-> "get_ips"]
                 /\ UNCHANGED <<proc, capture>>
            ELSE IF outcome # "ok"
            THEN /\ spc' = [spc EXCEPT ![t] = "raised"]
                 /\ capture' = [capture EXCEPT ![t] =
                                  FilesCreated(outcome) - FilesRemoved(outcome)]
                 /\ last' = [op |-> "spawn_task", ret |-> "CmdError",
                             calls |-> {"get_ips"}, fail |-> outcome]
                 /\ UNCHANGED proc
            ELSE /\ spc' = [spc EXCEPT ![t] = "waitpid"]
                 /\ proc' = [proc EXCEPT ![t] = "running"]
                 /\ capture' = [capture EXCEPT ![t] = FilesCreated(outcome)]
                 /\ last' = [op |-> "spawn_task", ret |-> "pending",
                             calls |-> {"get_ips", "attach"}, fail |-> "none"]
    /\ UNCHANGED <<LXC_AVAILABLE, spawner_handle, status, container, wpc, hist>>

\* lxc.py:189 moved before the command's result is in.
handle_on_return_early(t, ok) == [spawner_handle EXCEPT ![t] = container_id]

\* lxc.py:189  runtime_task.spawner_handle = container_id, reached only when
\* the awaited command came back without an error.
handle_on_return(t, ok) ==
    IF ok THEN [spawner_handle EXCEPT ![t] = container_id] ELSE spawner_handle

\* lxc.py:87-88, 171-190: os.waitpid has returned because the child exited;
\* the captures are read and removed, the handle is recorded and spawn_task
\* returns True.
spawn_task_resume(t) ==
    /\ spc[t] = "waitpid"
    /\ UNCHANGED collector
    /\ proc[t] = "exited"
    /\ ~LoopBlocked
    /\ \E outcome \in {"ok", "read"} :
         /\ capture' = [capture EXCEPT ![t] = capture[t] - FilesRemoved(outcome)]
         /\ spawner_handle' = handle_on_return(t, outcome = "ok")
         /\ spc' = [spc EXCEPT ![t] = IF outcome = "ok" THEN "ret_true" ELSE "raised"]
         /\ last' = [op |-> "spawn_task", ret |-> IF outcome = "ok" THEN "True" ELSE "CmdError",
                     calls |-> {}, fail |-> IF outcome = "ok" THEN "none" ELSE outcome]
    /\ UNCHANGED <<LXC_AVAILABLE, status, container, proc, wpc, hist>>

\* The awaiting caller is cancelled while spawn_task waits for the child:
\* CancelledError is raised at lxc.py:87 and leaves through the with block.
spawn_task_cancel(t) ==
    /\ spc[t] = "waitpid"
    /\ UNCHANGED collector
    /\ ~LoopBlocked
    /\ capture' = [capture EXCEPT ![t] = capture[t] - FilesRemoved("ok")]
    /\ spc' = [spc EXCEPT ![t] = "raised"]
    /\ last' = [op |-> "spawn_task", ret |-> "CancelledError",
                calls |-> {}, fail |-> "cancelled"]
    /\ UNCHANGED <<LXC_AVAILABLE, spawner_handle, status, container, proc, wpc,
                   hist>>

(***************************************************************************)
(* wait_task and check_task_requirements                                   *)
(***************************************************************************)

\* The loop of lxc.py:194-197 with the test of line 195 inverted.
wait_task_next_inverted(ret) ==
    CASE ret = "True"  -> "returned"
      [] ret = "False" -> "polling"
      [] OTHER -> "raised"

\* lxc.py:194-197: where wait_task goes after one probe: it returns when the
\* task is not alive, sleeps 0.1 s when it is, and lets an error out.
wait_task_next(ret) ==
    CASE ret = "False" -> "returned"
      [] ret = "True"  -> "polling"
      [] OTHER -> "raised"

\* One round of wait_task: entered, or woken from asyncio.sleep(0.1), it
\* probes the task once ("polling" is a wait_task that has its next probe
\* ahead of it).
wait_task(t) ==
    /\ wpc[t] = "polling"
    /\ UNCHANGED collector
    /\ ~LoopBlocked
    /\ \E r \in {is_task_alive(t, outcome) : outcome \in CmdOutcomes} :
         LET nxt == wait_task_next(r.ret) IN
         /\ status' = [status EXCEPT ![t] = r.status]
         /\ hist' = observe(t, r.ret)
         /\ wpc' = [wpc EXCEPT ![t] = nxt]
         /\ last' = [op |-> "wait_task", ret |-> CASE nxt = "returned" -> "None"
                               [] nxt = "polling" -> "pending"
                               [] OTHER -> r.ret,
                     calls |-> r.calls, fail |-> "none"]
         /\ capture' = [capture EXCEPT ![t] = @ + r.files]
    /\ UNCHANGED <<LXC_AVAILABLE, spawner_handle, container, proc, spc>>

\* A variant that reports a task without declared requirements as unmet.
requirements_met_declared_only(runnable_requirements) ==
    IF ~runnable_requirements THEN "False" ELSE "True"

\* lxc.py:202-205: True with or without declared requirements.
requirements_met(runnable_requirements) ==
    IF ~runnable_requirements THEN "True" ELSE "True"

\* lxc.py:199-205.  The orchestrator checks a task's requirements before it
\* spawns the task.
check_task_requirements(t) ==
    /\ spc[t] = "idle"
    /\ UNCHANGED collector
    /\ ~LoopBlocked
    /\ \E ret \in {requirements_met(runnable_requirements) :
                     runnable_requirements \in BOOLEAN} :
         last' = [op |-> "check_task_requirements", ret |-> ret,
                  calls |-> {}, fail |-> "none"]
    /\ UNCHANGED <<LXC_AVAILABLE, spawner_handle, status, backend, spc, wpc,
                   hist>>

(***************************************************************************)
(* The environment: the container, its processes, the module flag          *)
(***************************************************************************)

\* The entry point process of task t ends.
proc_exits(t) ==
    /\ proc[t] = "running"
    /\ UNCHANGED collector
    /\ proc' = [proc EXCEPT ![t] = "exited"]
    /\ UNCHANGED <<LXC_AVAILABLE, spawner_handle, status, container, capture,
                   spc, wpc, last, hist>>

\* The container is shut down from outside; its processes end with it.
container_stops ==
    /\ container[container_id].running
    /\ UNCHANGED collector
    /\ container' = [container EXCEPT ![container_id].running = FALSE]
    /\ proc' = [t \in Tasks |-> IF proc[t] = "running" THEN "exited" ELSE proc[t]]
    /\ UNCHANGED <<LXC_AVAILABLE, spawner_handle, status, capture,
                   spc, wpc, last, hist>>

\* The stopped container is destroyed from outside.
container_destroyed ==
    /\ container[container_id].defined
    /\ UNCHANGED collector
    /\ ~container[container_id].running
    /\ container' = [container EXCEPT ![container_id] =
                        [defined |-> FALSE, running |-> FALSE, runner |-> FALSE, creator |-> 0,
                         rootfs |-> no_rootfs]]
    /\ UNCHANGED <<LXC_AVAILABLE, spawner_handle, status, proc, capture,
                   spc, wpc, last, hist>>

\* The module flag of lxc.py:9 is set to False after a successful import
\* (the other direction would leave the name lxc unbound).
dependency_lost ==
    /\ LXC_AVAILABLE
    /\ UNCHANGED collector
    /\ ~LoopBlocked
    /\ LXC_AVAILABLE' = FALSE
    /\ UNCHANGED <<spawner_handle, status, backend, spc, wpc, last, hist>>

Next ==
    \/ \E t \in Tasks : spawn_task(t)
    \/ \E t \in Tasks : spawn_task_get_ips(t)
    \/ \E t \in Tasks : spawn_task_resume(t)
    \/ \E t \in Tasks : spawn_task_cancel(t)
    \/ \E t \in Tasks : call_is_task_alive(t)
    \/ \E t \in Tasks : wait_task(t)
    \/ \E t \in Tasks : check_task_requirements(t)
    \/ \E t \in Tasks : proc_exits(t)
    \/ container_stops
    \/ container_destroyed
    \/ dependency_lost

Spec == Init /\ [][Next]_vars

\* A round of wait_task's loop whose probe gets an answer.
wait_task_round(t) == wait_task(t) /\ last'.ret # "CmdError"

\* The cooperative loop is scheduled fairly: a wait_task that can make its
\* next round makes it (lxc.py:194-197 sleeps 0.1 s between rounds), and the
\* blocking c.get_ips(timeout=30) of lxc.py:162 ends.  Nothing is assumed of
\* the runner processes, which may run for ever, nor of the orchestrator's
\* other calls.
FairSpec ==
    /\ Spec
    /\ \A t \in Tasks : WF_vars(wait_task_round(t))
    /\ \A t \in Tasks : WF_vars(spawn_task_get_ips(t))

(***************************************************************************)
(* stream_output: the output files of a finished task                      *)
(* (avocado/core/spawners/common.py)                                       *)
(***************************************************************************)

\* Largest number of entries in a task's output directory.
MaxFiles == 2

\* Largest size of an output file, in bytes.
MaxLen == 2

Bytes == {"h", "i"}

\* File contents: the byte strings of at most MaxLen bytes.
Contents == UNION {[1..n -> Bytes] : n \in 0..MaxLen}

\* A directory entry: a regular file with its contents, or something else
\* (a subdirectory, a socket, ...).  The entry at position i of a listing
\* has the name i; the order of a listing is the filesystem's.
Entries ==
    [kind : {"file"}, data : Contents] \cup {[kind |-> "other", data |-> <<>>]}

Listings == UNION {[1..n -> Entries] : n \in 0..MaxFiles}

\* The first line of a pointer file: a path, here the one of the task's
\* data directory or a path that names nothing, then optional whitespace.
Whitespace == {" ", "\n"}

PointerLines ==
    {<<"data">>, <<"data", "\n">>, <<"data", " ", "\n">>, <<"lost", "\n">>}

\* str.rstrip(): the string without its trailing whitespace.
RECURSIVE rstrip(_)
rstrip(line) ==
    IF line = <<>> THEN line
    ELSE IF line[Len(line)] \in Whitespace
         THEN rstrip(SubSeq(line, 1, Len(line) - 1))
         ELSE line

\* common.py:59  src = open(data_pointer, 'r').readline().rstrip()
src == rstrip(pointer.line)

\* A variant that reads one byte of the mapping.
bytes_from_file_first_byte(data) == SubSeq(data, 1, 1)

\* common.py:32-43: the file is mapped whole (length 0) and read() returns
\* the mapping from its start to its end, as one chunk.
bytes_from_file(data) == SubSeq(data, 1, Len(data))

\* A variant without the except clause.
translate_nothing(exc) == exc

\* common.py:65-66: a FileNotFoundError raised inside the try block leaves
\* as SpawnerException("Task not found: ..."); any other error is not caught.
translate(exc) ==
    IF exc = "FileNotFoundError" THEN "SpawnerException" ELSE exc

\* What can happen to a regular file while the generator visits it: nothing,
\* it is unlinked before path.is_file(), it is unlinked between is_file() and
\* stat() or open(), or it cannot be opened for reading.
Races(e) ==
    IF e.kind = "file"
    THEN {"none", "unlinked_before", "unlinked_between", "unreadable"}
    ELSE {"none"}

\* A variant without the size test.
visit_any_size(i, e, race) ==
    IF e.kind # "file" \/ race = "unlinked_before"
    THEN [exc |-> None, out |-> <<>>]
    ELSE IF race = "unlinked_between"
    THEN [exc |-> translate("FileNotFoundError"), out |-> <<>>]
    ELSE IF race = "unreadable"
    THEN [exc |-> translate("PermissionError"), out |-> <<>>]
    ELSE [exc |-> None, out |-> << <<i, bytes_from_file(e.data)>> >>]

\* common.py:61-64: one round of the loop, on entry e named i: the error that
\* leaves the generator, if any, and the pairs it yields.
visit(i, e, race) ==
    IF e.kind # "file" \/ race = "unlinked_before"
    THEN [exc |-> None, out |-> <<>>]
    ELSE IF race = "unlinked_between"
    THEN [exc |-> translate("FileNotFoundError"), out |-> <<>>]
    ELSE IF Len(e.data) = 0
    THEN [exc |-> None, out |-> <<>>]
    ELSE IF race = "unreadable"
    THEN [exc |-> translate("PermissionError"), out |-> <<>>]
    ELSE [exc |-> None, out |-> << <<i, bytes_from_file(e.data)>> >>]

\* The generator ends with an error.
raise(exc) == [gen EXCEPT !.pc = "raised", !.exc = exc]

\* common.py:56-61, run by the first next(): the pointer file is opened
\* outside the try block, the directory it names is listed inside it.
stream_output_open ==
    /\ gen.pc = "created"
    /\ \/ /\ ~pointer.exists
          /\ gen' = raise("FileNotFoundError")
       \/ /\ pointer.exists
          /\ src \notin DOMAIN dirs
          /\ gen' = raise(translate("FileNotFoundError"))
       \/ /\ pointer.exists
          /\ src \in DOMAIN dirs
          /\ \/ gen' = [gen EXCEPT !.pc = "iterating", !.listing = dirs[src]]
             \/ gen' = raise(translate("PermissionError"))
    /\ UNCHANGED <<LXC_AVAILABLE, spawner_handle, status, container, proc,
                   capture, spc, wpc, last, hist, pointer, dirs>>

\* common.py:61-64: the next entry of the listing.
stream_output_next ==
    /\ gen.pc = "iterating"
    /\ gen.pos < Len(gen.listing)
    /\ LET i == gen.pos + 1
           e == gen.listing[i]
       IN  \E race \in Races(e) :
             LET r == visit(i, e, race) IN
             gen' = IF r.exc # None
                    THEN [raise(r.exc) EXCEPT !.pos = i]
                    ELSE [gen EXCEPT !.pos = i,
                                     !.yielded = @ \o r.out,
                                     !.raced = @ \/ race # "none"]
    /\ UNCHANGED <<LXC_AVAILABLE, spawner_handle, status, container, proc,
                   capture, spc, wpc, last, hist, pointer, dirs>>

\* The listing is exhausted: the generator returns (StopIteration).
stream_output_end ==
    /\ gen.pc = "iterating"
    /\ gen.pos = Len(gen.listing)
    /\ gen' = [gen EXCEPT !.pc = "done"]
    /\ UNCHANGED <<LXC_AVAILABLE, spawner_handle, status, container, proc,
                   capture, spc, wpc, last, hist, pointer, dirs>>

\* stream_output(job_id, task_id) has been called on some state of the
\* results directory: the generator is created, none of its code has run.
InitStream ==
    /\ LXC_AVAILABLE \in BOOLEAN
    /\ spawner_handle = [t \in Tasks |-> None]
    /\ status = [t \in Tasks |-> None]
    /\ container = [c \in ContainerIds |->
                        [defined |-> FALSE, running |-> FALSE, runner |-> FALSE, creator |-> 0,
                         rootfs |-> no_rootfs]]
    /\ proc = [t \in Tasks |-> "none"]
    /\ capture = [t \in Tasks |-> 0]
    /\ spc = [t \in Tasks |-> "idle"]
    /\ wpc = [t \in Tasks |-> "polling"]
    /\ last = [op |-> "none", ret |-> "none", calls |-> {}, fail |-> "none"]
    /\ hist = [t \in Tasks |-> "none"]
    /\ pointer \in {[exists |-> FALSE, line |-> <<>>]}
                      \cup [exists : {TRUE}, line : PointerLines]
    /\ dirs \in UNION {[D -> Listings] : D \in {{}, {<<"data">>}}}
    /\ gen = [pc |-> "created", listing |-> <<>>, pos |-> 0, yielded |-> <<>>,
              exc |-> None, raced |-> FALSE]

NextStream ==
    \/ stream_output_open
    \/ stream_output_next
    \/ stream_output_end

SpecStream == InitStream /\ [][NextStream]_vars


(***************************************************************************)
(* Properties                                                              *)
(***************************************************************************)

\* The backend as spawn_task and is_task_alive see it.
c34 == container[container_id]

\* Every answer is_task_alive can give for t in the current state.
answers(t) == {is_task_alive(t, outcome).ret : outcome \in CmdOutcomes}

\* C1: a task spawned with success against a fresh backend (its own
\* spawn_task created the rootfs, the container is still up) is seen alive
\* before it is seen finished: the first answer of is_task_alive after the
\* spawn is not False.
C1_AliveBeforeFinished ==
    [][\A t \in Tasks :
          (/\ spawner_handle[t] # None
           /\ c34.creator = t
           /\ c34.running
           /\ hist[t] = "none") => hist'[t] # "F"]_vars

\* C2: wait_task returns only on a probe that answered False, and in the
\* state it returns in is_task_alive cannot answer True: it answers False
\* whenever its probe command runs.
C2_WaitTaskReturnsNotAlive ==
    [][\A t \in Tasks :
          (wpc[t] = "polling" /\ wpc'[t] = "returned") =>
              /\ "False" \in answers(t)
              /\ wait_task(t)
              /\ ("True" \notin answers(t))'
              /\ (is_task_alive(t, "ok").ret = "False")']_vars

\* C2 witness: wait_task has returned for a spawned task whose container is
\* still running, while every other wait_task is still polling.
C2_Witness ==
    /\ last.op = "wait_task" /\ last.ret = "None" /\ last.calls = {"pgrep"}
    /\ \E t \in Tasks :
         /\ wpc[t] = "returned" /\ spawner_handle[t] # None
         /\ \A u \in Tasks \ {t} : wpc[u] = "polling"

\* The step is a call of is_task_alive on t (the cheap tests first).
is_call(t) ==
    /\ last'.op = "is_task_alive"
    /\ UNCHANGED <<spc, wpc, proc, LXC_AVAILABLE>>
    /\ call_is_task_alive(t)

\* C3: on a RuntimeTask without a handle is_task_alive returns False, raises
\* nothing and changes neither the RuntimeTask nor the backend, with or
\* without the lxc bindings.
C3_NoHandleNotAlive ==
    [][\A t \in Tasks :
          (spawner_handle[t] = None /\ is_call(t)) =>
              /\ last'.ret = "False"
              /\ last'.calls = {}
              /\ UNCHANGED <<spawner_handle, status, container, proc, capture>>]_vars

\* C3 witness: is_task_alive answered False although the bindings are
\* missing; no task has a handle and one of them failed to spawn.
C3_Witness ==
    /\ last.op = "is_task_alive" /\ last.ret = "False"
    /\ ~LXC_AVAILABLE
    /\ \A t \in Tasks : spawner_handle[t] = None
    /\ \E t \in Tasks : spc[t] = "ret_false"

\* C4: spawn_task creates the rootfs only of an undefined container and
\* starts only a container that is not running; on a container that is
\* defined and running it neither creates nor starts, leaves the container
\* as it is, and fails only if deploying the runner fails.
C4_SpawnReusesContainer ==
    [][\A t \in Tasks : spawn_task(t) =>
          /\ "create" \in last'.calls => ~c34.defined
          /\ "start" \in last'.calls => ~c34.running
          /\ (LXC_AVAILABLE /\ c34.defined /\ c34.running) =>
                /\ last'.calls = {"copy"}
                /\ container' = container
                /\ last'.fail \in {"none", "copy"}]_vars

\* C4 witness: a spawn_task went through on a container that another task's
\* spawn had created and that was running: it only deployed the runner.
C4_Witness ==
    /\ last.op = "spawn_task" /\ last.ret = "pending" /\ last.calls = {"copy"}
    /\ \E t \in Tasks : spc[t] = "get_ips" /\ c34.creator \notin {0, t}

\* C5: a RuntimeTask holds a handle exactly when its spawn_task has returned
\* True, and only that return changes the handle.
C5_HandleIffSpawned ==
    /\ [](\A t \in Tasks : spawner_handle[t] # None <=> spc[t] = "ret_true")
    /\ [][\A t \in Tasks : spawner_handle'[t] # spawner_handle[t] =>
              /\ spawn_task_resume(t)
              /\ spawner_handle[t] = None
              /\ spawner_handle'[t] = container_id
              /\ last'.ret = "True"]_vars

\* C5 witness: one task holds the handle after a successful spawn, another
\* task's spawn_task has ended with an error after the command was attached,
\* and is_task_alive and wait_task have run on both.
C5_Witness ==
    \E t, u \in Tasks :
      /\ spawner_handle[t] = container_id /\ spc[t] = "ret_true"
      /\ spc[u] = "raised" /\ proc[u] # "none" /\ spawner_handle[u] = None
      /\ hist[t] # "none" /\ wpc[t] = "returned" /\ wpc[u] = "returned"

\* C6: two RuntimeTasks handled on the one event loop never deadlock, and
\* while one task's spawn_task waits for the container's network the other
\* task's wait_task can still make its next probe.
C6_NetworkWaitDoesNotBlock ==
    /\ ENABLED Next
    /\ \A a, b \in Tasks :
         (a # b /\ spc[a] = "get_ips" /\ wpc[b] = "polling") => ENABLED wait_task(b)

\* C7: two RuntimeTasks never hold the same container identifier.
C7_DistinctHandles ==
    \A a, b \in Tasks :
      (a # b /\ spawner_handle[a] # None /\ spawner_handle[b] # None)
          => spawner_handle[a] # spawner_handle[b]

\* C8: once spawn_task has returned failure for a RuntimeTask, or once
\* is_task_alive has answered False for it after a successful spawn,
\* is_task_alive never answers True for it again.
C8_TerminalStates ==
    /\ [](\A t \in Tasks : spc[t] = "ret_false" => "True" \notin answers(t))
    /\ [][\A t \in Tasks : hist[t] = "F" => hist'[t] # "T"]_vars

\* C9: without the lxc bindings spawn_task records the explanation in the
\* status and returns False at once: no backend call is made, the container,
\* the processes and the capture files are untouched, the handle stays unset
\* and nothing is raised.
C9_FailFastWithoutDependency ==
    [][\A t \in Tasks : (spawn_task(t) /\ ~LXC_AVAILABLE) =>
          /\ status'[t] = msg
          /\ spc'[t] = "ret_false"
          /\ last'.ret = "False"
          /\ last'.calls = {}
          /\ spawner_handle'[t] = None
          /\ UNCHANGED <<spawner_handle, container, proc, capture>>]_vars

\* C9 witness: spawn_task failed for want of the bindings while the
\* container it would have used was defined and running.
C9_Witness ==
    /\ last.op = "spawn_task" /\ last.fail = "dependency" /\ last.ret = "False"
    /\ ~LXC_AVAILABLE /\ c34.defined /\ c34.running
    /\ \E t \in Tasks : spc[t] = "ret_false" /\ status[t] = msg

C11_FailedSpawnSetsStatus ==
    \A t \in Tasks : spc[t] = "ret_false" => status[t] # None

\* The step is spawn_task's provisioning part or its network wait, for t.
is_spawn_step(t) ==
    /\ last'.op = "spawn_task"
    /\ spc'[t] # spc[t]
    /\ spawn_task(t) \/ spawn_task_get_ips(t)

\* C12: spawn_task stops at the first provisioning step that fails, returns
\* False and raises nothing: after a failed create nothing is deployed or
\* started, after a failed deployment nothing is started, after a failed
\* start or network wait nothing is attached; the entry point is attached
\* only in a container that is defined, holds the runner, is running and has
\* reported its addresses.
C12_AbortsOnFirstFailure ==
    [][\A t \in Tasks : is_spawn_step(t) =>
          /\ last'.fail \in {"create", "copy", "start", "get_ips"} =>
                /\ spc'[t] = "ret_false" /\ last'.ret = "False"
                /\ "attach" \notin last'.calls
                /\ UNCHANGED <<proc, capture, spawner_handle>>
          /\ last'.fail = "create" =>
                (last'.calls = {"create"} /\ container' = container)
          /\ last'.fail = "copy" =>
                ("start" \notin last'.calls /\ c34'.running = c34.running
                    /\ c34'.runner = c34.runner)
          /\ last'.fail = "start" => ~c34'.running
          /\ "attach" \in last'.calls =>
                /\ "get_ips" \in last'.calls
                /\ c34.defined /\ c34.runner /\ c34.running
                /\ proc'[t] = "running"]_vars

\* C12 witness: a deployment failed on a rootfs the same call had created:
\* spawn_task returned False, the container is defined but was not started.
C12_Witness ==
    /\ last.op = "spawn_task" /\ last.fail = "copy" /\ last.ret = "False"
    /\ last.calls = {"create", "copy"}
    /\ c34.defined /\ ~c34.running /\ ~c34.runner
    /\ \E t \in Tasks : spc[t] = "ret_false" /\ c34.creator = t

\* C15: no capture file outlives the command that made it: whether
\* run_container_cmd or run_container_cmd_async returns, fails to acquire the
\* second capture, fails to attach, fails to read or is cancelled while it
\* waits for the child, both temporary files are gone once it is left; they
\* exist only while spawn_task is suspended inside the asynchronous command.
C15_CaptureFilesRemoved ==
    \A t \in Tasks : capture[t] = (IF spc[t] = "waitpid" THEN 2 ELSE 0)

\* C15 witness: a probe command has just failed inside is_task_alive and a
\* spawn_task was cancelled while its child still runs; no capture file is
\* left.
C15_Witness ==
    /\ last.op = "is_task_alive" /\ last.ret = "CmdError"
    /\ \E u \in Tasks : spc[u] = "raised" /\ proc[u] = "running"
    /\ \A t \in Tasks : capture[t] = 0

\* C16: check_task_requirements returns True, with and without declared
\* requirements; it runs no backend command and leaves the RuntimeTask's
\* handle and status, the container, its processes and the capture files as
\* they were.
C16_RequirementsCheckIsPure ==
    [][\A t \in Tasks :
          (last'.op = "check_task_requirements" /\ check_task_requirements(t)) =>
              /\ last'.ret = "True"
              /\ last'.calls = {}
              /\ UNCHANGED <<spawner_handle, status, container, proc, capture,
                             LXC_AVAILABLE>>]_vars

\* C16 witness: the check answered True while the backend holds a running
\* container with a runner process of another task in it.
C16_Witness ==
    /\ last.op = "check_task_requirements" /\ last.ret = "True"
    /\ c34.running
    /\ \E u \in Tasks : proc[u] = "running" /\ spawner_handle[u] = None
    /\ \E t \in Tasks : spc[t] = "idle" /\ status[t] = None

\* C17: with a handle and the bindings present, is_task_alive returns True
\* exactly when the container named by the handle is defined, is running and
\* the pgrep probe run in it exits with status 0; when the container is
\* undefined or not running it returns False and runs no probe.
C17_AliveIffProbeSucceeds ==
    [][\A t \in Tasks :
          (is_call(t) /\ spawner_handle[t] # None /\ LXC_AVAILABLE) =>
              LET c  == container[spawner_handle[t]]
                  up == c.defined /\ c.running
              IN  /\ last'.ret = "True" =>
                        (up /\ pgrep(spawner_handle[t]) = 0)
                  /\ (up /\ pgrep(spawner_handle[t]) = 0
                         /\ last'.ret # "CmdError") => last'.ret = "True"
                  /\ up => last'.calls = {"pgrep"}
                  /\ ~up => (last'.ret = "False" /\ last'.calls = {})]_vars

\* C17 witness: is_task_alive has answered True on a task that holds a
\* handle, from a probe run in the defined and running container.
C17_Witness ==
    /\ last.op = "is_task_alive" /\ last.ret = "True"
    /\ last.calls = {"pgrep"}
    /\ LXC_AVAILABLE /\ c34.defined /\ c34.running
    /\ \E t \in Tasks : spawner_handle[t] # None /\ hist[t] = "T"

\* C19: the settings keys spawn_task looks up are keys that
\* LXCSpawnerInit.initialize registers, so that with no user override every
\* rootfs is created with the registered defaults: dist fedora, release 32,
\* arch i386, none of them missing.
C19_CreatedWithRegisteredDefaults ==
    c34.defined =>
        c34.rootfs = [dist |-> "fedora", release |-> "32", arch |-> "i386"]

\* The output artifact set of the first n entries of a listing: the pair
\* (name, contents) of every regular file of non-zero size, in listing order.
RECURSIVE artifacts(_, _)
artifacts(listing, n) ==
    IF n = 0 THEN <<>>
    ELSE artifacts(listing, n - 1) \o
         (IF listing[n].kind = "file" /\ listing[n].data # <<>>
          THEN << <<n, listing[n].data>> >> ELSE <<>>)

\* C13: on an output directory that does not change while it is read,
\* stream_output yields exactly one pair (filename, full contents) for each
\* entry that is a regular file of non-zero size and nothing for an empty
\* file or an entry that is not a regular file; the generator ends after the
\* last entry.
C13_YieldsNonEmptyRegularFiles ==
    (gen.pc \in {"iterating", "done"} /\ ~gen.raced) =>
        /\ gen.yielded = artifacts(gen.listing, gen.pos)
        /\ gen.pc = "done" => gen.pos = Len(gen.listing)

\* C13 witness: the directory held a non-empty file and an empty one; the
\* generator has ended and has yielded the one pair of the non-empty file.
C13_Witness ==
    /\ gen.pc = "done" /\ ~gen.raced
    /\ \E i, j \in DOMAIN gen.listing :
         /\ gen.listing[i].kind = "file" /\ Len(gen.listing[i].data) = MaxLen
         /\ gen.listing[j] = [kind |-> "file", data |-> <<>>]
         /\ gen.yielded = << <<i, gen.listing[i].data>> >>

\* C14: when the pointer file names a directory that does not exist,
\* consuming stream_output ends with SpawnerException and nothing has been
\* yielded before it.
C14_MissingDirectoryIsTaskNotFound ==
    (pointer.exists /\ src \notin DOMAIN dirs /\ gen.pc \notin {"none", "created"}) =>
        /\ gen.pc = "raised"
        /\ gen.exc = "SpawnerException"
        /\ gen.yielded = <<>>

\* C14 witness: a data directory with entries exists, the pointer file names
\* another path, and the first next() has raised SpawnerException.
C14_Witness ==
    /\ pointer.exists /\ src = <<"lost">>
    /\ <<"data">> \in DOMAIN dirs /\ dirs[<<"data">>] # <<>>
    /\ gen.pc = "raised" /\ gen.exc = "SpawnerException"
    /\ gen.yielded = <<>>

\* C18: stream_output ends with the 'task not found' error only when the
\* directory the pointer file names does not exist; a file that disappears
\* between the listing and its reading, like a missing pointer file, lets
\* the filesystem's own error out.
C18_TranslatesOnlyMissingDirectory ==
    gen.exc = "SpawnerException" => (pointer.exists /\ src \notin DOMAIN dirs)

\* C20: wait_task terminates when the task has ended: once the RuntimeTask's
\* own runner process has exited, under fair scheduling of the loop the
\* wait_task call on it eventually ends, also while other RuntimeTasks are
\* spawned and run (a call ended by an error of its probe counts as ended);
\* on a RuntimeTask without a handle wait_task returns at its first probe.
C20_WaitTaskTerminates ==
    /\ \A t \in Tasks :
          (spawner_handle[t] # None /\ proc[t] = "exited") ~> (wpc[t] # "polling")
    /\ [][\A t \in Tasks :
            (last'.op = "wait_task" /\ spawner_handle[t] = None /\ wait_task(t))
                => wpc'[t] = "returned"]_vars

====
